---- MODULE Spec2Model ----
(***************************************************************************)
(* Model of .githooks/pre-commit.py: the hook that walks the working      *)
(* directory, extracts the VBA modules of every Excel file into src.vba/   *)
(* and dumps seven text reports per workbook into excel_reports/.          *)
(*                                                                         *)
(* File names are sequences of one-character strings, so that the suffix   *)
(* test of the discovery loop, os.path.splitext and the report file names  *)
(* are computed character by character as the code computes them.          *)
(***************************************************************************)
EXTENDS Integers, Sequences, FiniteSets, TLC

VARIABLES tree, vba, rep, pc, i, calls, run, snap

vars == <<tree, vba, rep, pc, i, calls, run, snap>>

(* ------------------------------ bounds -------------------------------- *)

MaxFiles == 3

MaxCells == 2

MaxLen == 3

(* ---------------------------- file names ------------------------------ *)

EXCEL_FILE_EXTENSIONS ==
  << <<"x","l","s","b">>, <<"x","l","s">>, <<"x","l","s","m">>, <<"x","l","a">>,
     <<"x","l","t">>, <<"x","l","a","m">>, <<"x","l","s","x">> >>

KEEP_NAME == FALSE

\* str.endswith(suffix): compared from the last character backwards
RECURSIVE endswith1(_, _)
endswith1(s, suffix) ==
  IF suffix = <<>> THEN TRUE
  ELSE IF s = <<>> THEN FALSE
  ELSE IF s[Len(s)] # suffix[Len(suffix)] THEN FALSE
  ELSE endswith1(SubSeq(s, 1, Len(s) - 1), SubSeq(suffix, 1, Len(suffix) - 1))

\* the dot-boundary variant of the filter: the suffix must follow a "."
endswith_ext(s, suffixes) ==
  \E k \in 1..Len(suffixes) : endswith1(s, <<".">> \o suffixes[k])

\* str.endswith(tuple): true when any member of the tuple is a suffix
endswith(s, suffixes) ==
  \E k \in 1..Len(suffixes) : endswith1(s, suffixes[k])

\* index of the last "." of p, 0 when there is none (str.rfind + 1)
RECURSIVE rfind_dot(_)
rfind_dot(p) ==
  IF p = <<>> THEN 0
  ELSE IF p[Len(p)] = "." THEN Len(p)
  ELSE rfind_dot(SubSeq(p, 1, Len(p) - 1))

\* os.path.splitext(file)[0] for a name without directory separator:
\* split at the last dot unless only dots precede it
splitext0(p) ==
  LET dotIndex == rfind_dot(p)
  IN  IF dotIndex > 0 /\ \E k \in 1..(dotIndex - 1) : p[k] # "."
      THEN SubSeq(p, 1, dotIndex - 1)
      ELSE p

(* ------------------------ directories and files ----------------------- *)

Absent == [exists |-> FALSE, files |-> <<>>]

EmptyDir == [exists |-> TRUE, files |-> <<>>]

\* the two rmtree calls with one existence test for both directories
CleanOutputsOneTest(vbaDir, repDir) ==
  << IF vbaDir.exists THEN Absent ELSE vbaDir,
     IF vbaDir.exists THEN Absent ELSE repDir >>

\* if os.path.exists(d): shutil.rmtree(d), for src.vba and excel_reports
CleanOutputs(vbaDir, repDir) ==
  << IF vbaDir.exists THEN Absent ELSE vbaDir,
     IF repDir.exists THEN Absent ELSE repDir >>

\* os.makedirs(path, exist_ok=True)
makedirs(d) == [d EXCEPT !.exists = TRUE]

\* open(path, "a"): the text is added to what the file holds
append_file(files, name, content) ==
  (name :> (IF name \in DOMAIN files THEN files[name] \o content ELSE content))
    @@ files

\* open(path, "w") + write: the file holds exactly the text written
write_file(files, name, content) == (name :> content) @@ files

(* ------------------------------ values -------------------------------- *)

\* A cell value: t is its Python type, s the payload of a str, n the payload
\* of an int, float (n.0), bool (1/0) or timedelta (seconds).
Val(t, s, n) == [t |-> t, s |-> s, n |-> n]

NoneV == Val("NoneType", "", 0)

StrV(s) == Val("str", s, 0)

IntV(n) == Val("int", "", n)

FloatV(n) == Val("float", "", n)

BoolV(b) == Val("bool", "", IF b THEN 1 ELSE 0)

DateV == Val("datetime", "", 0)

DeltaV(n) == Val("timedelta", "", n)

\* isinstance(v, cls): bool is a subclass of int
isinstance(v, cls) ==
  CASE cls = "str" -> v.t = "str"
    [] cls = "int" -> v.t \in {"int", "bool"}
    [] cls = "float" -> v.t = "float"
    [] cls = "bool" -> v.t = "bool"
    [] OTHER -> FALSE

\* bool(v): the truth value Python gives the object
truthy(v) ==
  CASE v.t = "NoneType" -> FALSE
    [] v.t = "str" -> v.s # ""
    [] v.t \in {"int", "float", "bool", "timedelta"} -> v.n # 0
    [] OTHER -> TRUE

\* str(v), as the f-string formats the value
str(v) ==
  CASE v.t = "NoneType" -> "None"
    [] v.t = "str" -> v.s
    [] v.t = "int" -> ToString(v.n)
    [] v.t = "float" -> ToString(v.n) \o ".0"
    [] v.t = "bool" -> (IF v.n = 1 THEN "True" ELSE "False")
    [] v.t = "datetime" -> "2024-01-01 00:00:00"
    [] OTHER -> ToString(v.n) \o ":00:00"

\* the classification with the boolean test ahead of the numeric one
cell_type_bool_first(v) ==
  IF isinstance(v, "str") THEN "Text"
  ELSE IF isinstance(v, "bool") THEN "Boolean"
  ELSE IF isinstance(v, "int") \/ isinstance(v, "float") THEN "Number"
  ELSE "Other"

\* the if / elif chain that sets cell_type
cell_type(v) ==
  IF isinstance(v, "str") THEN "Text"
  ELSE IF isinstance(v, "int") \/ isinstance(v, "float") THEN "Number"
  ELSE IF isinstance(v, "bool") THEN "Boolean"
  ELSE "Other"

(* --------------------------- macro extraction ------------------------- *)

\* A module's source text is a sequence of tokens: NL is a line break, the
\* others are pieces of text without a line break.
NL == "\n"

AttrName == "Attribute VB_Name = \"Module1\""

AttrOther == "Attribute VB_Exposed = False"

Code == "Sub Main()"

Tokens == {NL, AttrName, AttrOther, Code}

\* position of the first NL of text, 0 when there is none
RECURSIVE find_nl(_, _)
find_nl(text, k) ==
  IF k > Len(text) THEN 0
  ELSE IF text[k] = NL THEN k
  ELSE find_nl(text, k + 1)

\* str.splitlines(): no line for the empty text after a final line break
RECURSIVE splitlines(_)
splitlines(text) ==
  IF text = <<>> THEN <<>>
  ELSE LET k == find_nl(text, 1)
       IN  IF k = 0 THEN <<text>>
           ELSE <<SubSeq(text, 1, k - 1)>> \o splitlines(SubSeq(text, k + 1, Len(text)))

\* line.startswith("Attribute")
startswith_Attribute(line) == line # <<>> /\ line[1] \in {AttrName, AttrOther}

\* "VB_Name" in line
has_VB_Name(line) == \E k \in 1..Len(line) : line[k] = AttrName

\* the filter with the VB_Name lines kept
keep_line_with_name(line) == ~startswith_Attribute(line) \/ has_VB_Name(line)

\* the condition of the list comprehension
keep_line(line) ==
  ~startswith_Attribute(line) \/ (has_VB_Name(line) /\ KEEP_NAME)

\* content_filtered
content_filtered(text) == SelectSeq(splitlines(text), keep_line)

\* "\n".join(lines)
RECURSIVE join(_)
join(lines) ==
  IF lines = <<>> THEN <<>>
  ELSE IF Len(lines) = 1 THEN lines[1]
  ELSE lines[1] \o <<NL>> \o join(Tail(lines))

\* the loop of parse_vba over the extracted modules, from module k on
RECURSIVE save_modules(_, _, _, _)
save_modules(d, modules, file_prefix, k) ==
  IF k > Len(modules) THEN d
  ELSE LET kept == content_filtered(modules[k].content)
           name == file_prefix \o <<"_">> \o modules[k].filename
       IN  IF kept # <<>>
           THEN save_modules([exists |-> TRUE,
                              files |-> write_file(d.files, name, join(kept))],
                             modules, file_prefix, k + 1)
           ELSE save_modules(d, modules, file_prefix, k + 1)

\* src.vba/ after parse_vba(workbook_path, file_prefix) returns
parse_vba(d, wb, file_prefix) ==
  save_modules(d, IF wb.has_macros THEN wb.modules ELSE <<>>, file_prefix, 1)

(* ------------------------------ workbooks ----------------------------- *)

\* cell.font.color / cell.fill.start_color: a colour object or None
NoColor == [present |-> FALSE, rgb |-> ""]

Rgb(c) == [present |-> TRUE, rgb |-> c]

\* cell.hyperlink: a hyperlink object or None
NoLink == [present |-> FALSE, target |-> ""]

Link(t) == [present |-> TRUE, target |-> t]

\* a cell of a worksheet with the attributes the reports read
Cell(coordinate, value) ==
  [coordinate |-> coordinate, value |-> value,
   font |-> [name |-> "Calibri", size |-> "11.0", bold |-> "False",
             italic |-> "False", color |-> NoColor],
   fill |-> Rgb("00000000"), alignment |-> "None",
   number_format |-> "General", hyperlink |-> NoLink]

\* a worksheet: its cells in iter_rows order and its sheet-level collections
Sheet(title, cells) ==
  [title |-> title, cells |-> cells, conditional_formatting |-> <<>>,
   merged_cells |-> <<>>, data_validations |-> <<>>]

\* one file as the two libraries see it: VBA_Parser opens it or raises,
\* detect_vba_macros / extract_all_macros, load_workbook loads it or raises,
\* the sheets as loaded with data_only=False and with data_only=True
Workbook(vba_ok, modules, load_ok, defined_names, sheets, eval_sheets) ==
  [vba_ok |-> vba_ok, has_macros |-> modules # <<>>, modules |-> modules,
   load_ok |-> load_ok, defined_names |-> defined_names,
   sheetnames |-> [k \in 1..Len(sheets) |-> sheets[k].title],
   sheets |-> sheets, eval_sheets |-> eval_sheets]

(* --------------------------- report generation ------------------------ *)

Cat_formulas_and_values ==
  <<"f","o","r","m","u","l","a","s","_","a","n","d","_","v","a","l","u","e","s">>

Cat_formatting ==
  <<"f","o","r","m","a","t","t","i","n","g">>

Cat_conditional_formatting ==
  <<"c","o","n","d","i","t","i","o","n","a","l","_","f","o","r","m","a","t","t","i","n","g">>

Cat_merged_cells ==
  <<"m","e","r","g","e","d","_","c","e","l","l","s">>

Cat_data_validations ==
  <<"d","a","t","a","_","v","a","l","i","d","a","t","i","o","n","s">>

Cat_hyperlinks ==
  <<"h","y","p","e","r","l","i","n","k","s">>

Cat_named_ranges ==
  <<"n","a","m","e","d","_","r","a","n","g","e","s">>

Categories ==
  << Cat_formulas_and_values, Cat_formatting, Cat_conditional_formatting,
     Cat_merged_cells, Cat_data_validations, Cat_hyperlinks, Cat_named_ranges >>

\* f"{file_prefix}_{category}.txt"
report_name(file_prefix, category) ==
  file_prefix \o <<"_">> \o category \o <<".","t","x","t">>

\* f"Sheet: {sheet_name}\n" + "-" * 40
sheet_header(sheet_name) ==
  <<"Sheet: ", sheet_name, "\n", "----------------------------------------">>

\* flatten a sequence of sequences of lines
RECURSIVE concat(_)
concat(ss) == IF ss = <<>> THEN <<>> ELSE Head(ss) \o concat(Tail(ss))

\* "Workbook Named Ranges" header and one line per defined name
named_ranges_section(wb) ==
  << <<"Workbook Named Ranges", "\n", "----------------------------------------">> >>
  \o [k \in 1..Len(wb.defined_names) |->
        <<"Name: ", wb.defined_names[k].name, ", Refers To: ",
          wb.defined_names[k].attr_text>>]

\* the line of the formulas_and_values report for a cell
formulas_line(cell) ==
  <<"Cell ", cell.coordinate, ": Value='", str(cell.value), "', Type='",
    cell_type(cell.value), "'">>

\* the section built from the rows of the data_only=True sheet
formulas_section_eval(sheet, eval_sheet) ==
  <<sheet_header(sheet.title)>>
  \o concat([k \in 1..Len(eval_sheet.cells) |->
               IF eval_sheet.cells[k].value.t # "NoneType"
               THEN <<formulas_line(eval_sheet.cells[k])>> ELSE <<>>])

\* 1. Formulas & Values: the rows of sheet, cells whose value is not None
formulas_section(sheet, eval_sheet) ==
  <<sheet_header(sheet.title)>>
  \o concat([k \in 1..Len(sheet.cells) |->
               IF sheet.cells[k].value.t # "NoneType"
               THEN <<formulas_line(sheet.cells[k])>> ELSE <<>>])

\* the line of the formatting report for a cell
formatting_line(cell) ==
  <<"Cell ", cell.coordinate, ": Font='", cell.font.name, "', Size=",
    cell.font.size, ", Bold=", cell.font.bold, ", Italic=", cell.font.italic,
    ", Font Color=", IF cell.font.color.present THEN cell.font.color.rgb ELSE "None",
    ", Fill Color=", IF cell.fill.present THEN cell.fill.rgb ELSE "None",
    ", Alignment=", cell.alignment, ", Number Format='", cell.number_format, "'">>

\* the section with every cell whose value is not None
formatting_section_not_none(sheet) ==
  <<sheet_header(sheet.title)>>
  \o concat([k \in 1..Len(sheet.cells) |->
               IF sheet.cells[k].value.t # "NoneType"
               THEN <<formatting_line(sheet.cells[k])>> ELSE <<>>])

\* 2. Formatting: the cells whose value is truthy
formatting_section(sheet) ==
  <<sheet_header(sheet.title)>>
  \o concat([k \in 1..Len(sheet.cells) |->
               IF truthy(sheet.cells[k].value)
               THEN <<formatting_line(sheet.cells[k])>> ELSE <<>>])

\* 3. Conditional Formatting: one line per rule registered on the sheet
conditional_section(sheet) ==
  <<sheet_header(sheet.title)>>
  \o [k \in 1..Len(sheet.conditional_formatting) |->
        <<"Rule: ", sheet.conditional_formatting[k].range, ", Applied to: ",
          sheet.conditional_formatting[k].rules>>]

\* 4. Merged Cells: one line per merged range
merged_section(sheet) ==
  <<sheet_header(sheet.title)>>
  \o [k \in 1..Len(sheet.merged_cells) |->
        <<"Merged Range: ", sheet.merged_cells[k]>>]

\* 5. Data Validations: one line per validation rule
validations_section(sheet) ==
  <<sheet_header(sheet.title)>>
  \o [k \in 1..Len(sheet.data_validations) |->
        <<"Range: ", sheet.data_validations[k].sqref,
          ", Formula: ", sheet.data_validations[k].formula1,
          ", Allow Type: ", sheet.data_validations[k].type,
          ", Criteria: ", sheet.data_validations[k].operator>>]

\* 6. Hyperlinks: one line per cell that carries a hyperlink
hyperlinks_section(sheet) ==
  <<sheet_header(sheet.title)>>
  \o concat([k \in 1..Len(sheet.cells) |->
               IF sheet.cells[k].hyperlink.present
               THEN << <<"Cell ", sheet.cells[k].coordinate, ": Hyperlink='",
                         sheet.cells[k].hyperlink.target, "'">> >>
               ELSE <<>>])

\* the reports dict once the loop over workbook.sheetnames has ended:
\* (file name, lines) pairs in insertion order
reports(wb, file_prefix) ==
  LET n == Len(wb.sheetnames)
      per(sec(_)) == concat([k \in 1..n |-> sec(k)])
      f1(k) == formulas_section(wb.sheets[k], wb.eval_sheets[k])
      f2(k) == formatting_section(wb.sheets[k])
      f3(k) == conditional_section(wb.sheets[k])
      f4(k) == merged_section(wb.sheets[k])
      f5(k) == validations_section(wb.sheets[k])
      f6(k) == hyperlinks_section(wb.sheets[k])
  IN  << <<report_name(file_prefix, Cat_formulas_and_values), per(f1)>>,
         <<report_name(file_prefix, Cat_formatting), per(f2)>>,
         <<report_name(file_prefix, Cat_conditional_formatting), per(f3)>>,
         <<report_name(file_prefix, Cat_merged_cells), per(f4)>>,
         <<report_name(file_prefix, Cat_data_validations), per(f5)>>,
         <<report_name(file_prefix, Cat_hyperlinks), per(f6)>>,
         <<report_name(file_prefix, Cat_named_ranges), named_ranges_section(wb)>> >>

\* the loop that saves the reports, from item k on
RECURSIVE save_reports(_, _, _)
save_reports(files, items, k) ==
  IF k > Len(items) THEN files
  ELSE save_reports(write_file(files, items[k][1], items[k][2]), items, k + 1)

\* the report files opened for writing ahead of the two load_workbook calls
generate_text_reports_open_first(d, wb, file_prefix) ==
  [exists |-> TRUE,
   files |-> save_reports(d.files,
                          IF wb.load_ok THEN reports(wb, file_prefix)
                          ELSE [k \in 1..Len(Categories) |->
                                  <<report_name(file_prefix, Categories[k]), <<>>>>],
                          1)]

\* excel_reports/ after generate_text_reports(workbook_path, file_prefix)
\* returns or raises: the directory is made, then load_workbook may raise
generate_text_reports(d, wb, file_prefix) ==
  IF ~wb.load_ok THEN makedirs(d)
  ELSE [exists |-> TRUE,
        files |-> save_reports(d.files, reports(wb, file_prefix), 1)]

(* ------------------------- the directory trees ------------------------ *)

F_a_xlsx ==
  <<"a",".","x","l","s","x">>

F_a_xlsm ==
  <<"a",".","x","l","s","m">>

F_a_conditional_xlsx ==
  <<"a","_","c","o","n","d","i","t","i","o","n","a","l",".","x","l","s","x">>

F_legacy_xls ==
  <<"l","e","g","a","c","y",".","x","l","s">>

F_fooxls ==
  <<"f","o","o","x","l","s">>

F_foo_not_xlsx ==
  <<"f","o","o",".","n","o","t","_","x","l","s","x">>

F_DATA_XLSX ==
  <<"D","A","T","A",".","X","L","S","X">>

F_notes_txt ==
  <<"n","o","t","e","s",".","t","x","t">>

F_bad_xlsx ==
  <<"b","a","d",".","x","l","s","x">>

F_w_xlsm ==
  <<"w",".","x","l","s","m">>

F_old_xlsx ==
  <<"o","l","d",".","x","l","s","x">>

M_Module1_bas ==
  <<"M","o","d","u","l","e","1",".","b","a","s">>

M_ThisWorkbook_cls ==
  <<"T","h","i","s","W","o","r","k","b","o","o","k",".","c","l","s">>

\* a workbook without macros: a number, a boolean and a defined name
WbA ==
  LET sh == <<Sheet("Sheet1", <<Cell("A1", IntV(42)), Cell("B2", BoolV(TRUE))>>)>>
  IN  Workbook(TRUE, <<>>, TRUE,
               <<[name |-> "Total", attr_text |-> "Sheet1!$A$1"]>>, sh, sh)

\* a macro-enabled workbook: one module with code, one with attributes only,
\* and a formula whose cached result is 43
WbAm ==
  Workbook(TRUE,
           <<[filename |-> M_Module1_bas, content |-> <<AttrName, NL, Code>>],
             [filename |-> M_ThisWorkbook_cls, content |-> <<AttrName, NL, AttrOther, NL>>]>>,
           TRUE, <<>>,
           <<Sheet("Sheet1", <<Cell("A1", StrV("=B1+1"))>>)>>,
           <<Sheet("Sheet1", <<Cell("A1", IntV(43))>>)>>)

\* a workbook with two sheets, a merged range and a hyperlink
WbSub ==
  LET s1 == [Sheet("Data", <<[Cell("A1", StrV("x")) EXCEPT
                                !.hyperlink = Link("https://example.org/")]>>)
               EXCEPT !.merged_cells = <<"A1:B2">>]
      s2 == Sheet("Empty", <<Cell("A1", NoneV)>>)
  IN  Workbook(TRUE, <<>>, TRUE, <<>>, <<s1, s2>>, <<s1, s2>>)

\* a workbook with a conditional-formatting rule and a data validation
WbCond ==
  LET sh == <<[Sheet("S", <<Cell("A1", IntV(0))>>) EXCEPT
                 !.conditional_formatting =
                    <<[range |-> "A1:A9", rules |-> "cellIs"]>>,
                 !.data_validations =
                    <<[sqref |-> "A1", formula1 |-> "\"a,b\"", type |-> "list",
                       operator |-> "None"]>>]>>
  IN  Workbook(TRUE, <<>>, TRUE, <<>>, sh, sh)

\* an OLE workbook with a macro that load_workbook rejects
WbLegacy ==
  Workbook(TRUE, <<[filename |-> M_Module1_bas, content |-> <<Code>>]>>,
           FALSE, <<>>, <<>>, <<>>)

\* a file VBA_Parser opens and load_workbook rejects
WbNoLoad == Workbook(TRUE, <<>>, FALSE, <<>>, <<>>, <<>>)

\* a file neither library can open
WbCorrupt == Workbook(FALSE, <<>>, FALSE, <<>>, <<>>, <<>>)

\* an entry of os.walk("."): the directory, the file name, the file
Entry(root, file, wb) == [root |-> root, file |-> file, wb |-> wb]

Universe ==
  { Entry(".", F_a_xlsx, WbA), Entry(".", F_a_xlsm, WbAm),
    Entry("./sub", F_a_xlsx, WbSub), Entry(".", F_a_conditional_xlsx, WbCond),
    Entry(".", F_legacy_xls, WbLegacy), Entry(".", F_fooxls, WbNoLoad),
    Entry(".", F_foo_not_xlsx, WbNoLoad), Entry(".", F_DATA_XLSX, WbA),
    Entry(".", F_notes_txt, WbCorrupt), Entry("./sub", F_bad_xlsx, WbCorrupt) }

\* os.walk is top-down: the files of "." come before those of "./sub"
Trees ==
  UNION { { t \in [1..n -> Universe] :
              /\ \A j, k \in 1..n : j # k => t[j] # t[k]
              /\ \A j, k \in 1..n : (j < k /\ t[j].root = "./sub") => t[k].root = "./sub" }
          : n \in 0..MaxFiles }

\* cell contents as the two views of a workbook hold them: a constant is the
\* same in both, a formula is its text in one and its cached result in the other
PlainValues ==
  { NoneV, StrV(""), StrV("txt"), IntV(0), IntV(42), FloatV(0),
    BoolV(TRUE), BoolV(FALSE), DateV, DeltaV(0) }

CellKinds ==
  { <<v, v>> : v \in PlainValues }
  \cup { <<StrV("=A1+1"), e>> : e \in {NoneV, IntV(43), BoolV(TRUE), StrV("txt")} }

Coordinates == <<"A1", "B1", "C1", "D1">>

\* a workbook with one sheet whose cells are drawn from CellKinds
CellWorkbook(kinds, load_ok) ==
  Workbook(TRUE, <<>>, load_ok, <<>>,
           <<Sheet("Sheet1", [k \in 1..Len(kinds) |-> Cell(Coordinates[k], kinds[k][1])])>>,
           <<Sheet("Sheet1", [k \in 1..Len(kinds) |-> Cell(Coordinates[k], kinds[k][2])])>>)

\* a workbook with one module whose source text is drawn from the token texts
ModuleWorkbook(text, load_ok) ==
  LET sh == <<Sheet("Sheet1", <<Cell("A1", IntV(1))>>)>>
  IN  Workbook(TRUE, <<[filename |-> M_Module1_bas, content |-> text]>>,
               load_ok, <<>>, sh, sh)

DrawnTrees ==
  { <<Entry(".", F_w_xlsm, CellWorkbook(kinds, ok))>> :
      kinds \in UNION { [1..n -> CellKinds] : n \in 0..MaxCells }, ok \in BOOLEAN }
  \cup
  { <<Entry(".", F_w_xlsm, ModuleWorkbook(text, ok))>> :
      text \in UNION { [1..n -> Tokens] : n \in 0..MaxLen }, ok \in BOOLEAN }

\* what an earlier run, or the user, may have left in the output directories
StaleVba ==
  [exists |-> TRUE,
   files |-> (F_old_xlsx \o <<"_">> \o M_Module1_bas) :> <<Code>>]

StaleRep ==
  [exists |-> TRUE,
   files |-> (report_name(splitext0(F_old_xlsx), Cat_formatting) :> <<sheet_header("Old")>>)
             @@ (F_old_xlsx :> <<sheet_header("Old")>>)]

OutStates ==
  { <<Absent, Absent>>, <<Absent, StaleRep>>, <<StaleVba, StaleRep>>,
    <<EmptyDir, EmptyDir>> }

(* ------------------------------ the run ------------------------------- *)

\* a call made by the loop of __main__ and whether it raised
Call(fn, idx, raised) == [fn |-> fn, idx |-> idx, raised |-> raised]

\* an exception caught per file: the loop goes on with the next file
on_raise_continue(k) == [pc |-> "scan", i |-> k + 1]

\* nothing catches an exception: the interpreter exits inside file k
on_raise(k) == [pc |-> "aborted", i |-> k]

Init ==
  /\ tree \in Trees \cup DrawnTrees
  /\ \E o \in OutStates : vba = o[1] /\ rep = o[2]
  /\ pc = "start"
  /\ i = 0
  /\ calls = <<>>
  /\ run = 1
  /\ snap = [vba |-> Absent, rep |-> Absent]

\* lines 145-148: both output directories are removed; os.walk then lists "."
\* lazily, after the removal, so neither directory is ever walked
Clean ==
  /\ pc = "start"
  /\ LET c == CleanOutputs(vba, rep) IN vba' = c[1] /\ rep' = c[2]
  /\ pc' = "scan"
  /\ i' = 1
  /\ UNCHANGED <<tree, calls, run, snap>>

\* line 153, false branch: the file is not an Excel file
Skip ==
  /\ pc = "scan"
  /\ i <= Len(tree)
  /\ ~endswith(tree[i].file, EXCEL_FILE_EXTENSIONS)
  /\ i' = i + 1
  /\ UNCHANGED <<tree, vba, rep, pc, calls, run, snap>>

\* lines 153-161: the file matches, parse_vba(file_path, file_prefix) runs
ParseVba ==
  /\ pc = "scan"
  /\ i <= Len(tree)
  /\ endswith(tree[i].file, EXCEL_FILE_EXTENSIONS)
  /\ IF tree[i].wb.vba_ok
     THEN /\ vba' = parse_vba(vba, tree[i].wb, splitext0(tree[i].file))
          /\ pc' = "reports"
          /\ i' = i
          /\ calls' = Append(calls, Call("parse_vba", i, FALSE))
     ELSE /\ vba' = vba
          /\ pc' = on_raise(i).pc
          /\ i' = on_raise(i).i
          /\ calls' = Append(calls, Call("parse_vba", i, TRUE))
  /\ UNCHANGED <<tree, rep, run, snap>>

\* line 164: generate_text_reports(file_path, file_prefix) runs
GenerateTextReports ==
  /\ pc = "reports"
  /\ rep' = generate_text_reports(rep, tree[i].wb, splitext0(tree[i].file))
  /\ IF tree[i].wb.load_ok
     THEN /\ pc' = "scan"
          /\ i' = i + 1
          /\ calls' = Append(calls, Call("generate_text_reports", i, FALSE))
     ELSE /\ pc' = on_raise(i).pc
          /\ i' = on_raise(i).i
          /\ calls' = Append(calls, Call("generate_text_reports", i, TRUE))
  /\ UNCHANGED <<tree, vba, run, snap>>

\* the walk is exhausted: the script ends normally
Finish ==
  /\ pc = "scan"
  /\ i > Len(tree)
  /\ pc' = "done"
  /\ UNCHANGED <<tree, vba, rep, i, calls, run, snap>>

\* the hook is invoked again on the directory as the first run left it
Rerun ==
  /\ pc \in {"done", "aborted"}
  /\ run = 1
  /\ run' = 2
  /\ snap' = [vba |-> vba, rep |-> rep]
  /\ pc' = "start"
  /\ i' = 0
  /\ calls' = <<>>
  /\ UNCHANGED <<tree, vba, rep>>

Next == Clean \/ Skip \/ ParseVba \/ GenerateTextReports \/ Finish \/ Rerun

Spec == Init /\ [][Next]_vars

(* ----------------------- vocabulary of the claims --------------------- *)

\* the suffix test stated with SubSeq, one extension at a time
HasExcelSuffix(name) ==
  \E e \in { <<"x","l","s","b">>, <<"x","l","s">>, <<"x","l","s","m">>,
             <<"x","l","a">>, <<"x","l","t">>, <<"x","l","a","m">>,
             <<"x","l","s","x">> } :
     /\ Len(name) >= Len(e)
     /\ SubSeq(name, Len(name) - Len(e) + 1, Len(name)) = e

PrefixOf(k) == splitext0(tree[k].file)

LastCall == calls[Len(calls)]

Processed(k) == \E j \in 1..Len(calls) : calls[j].idx = k

\* the state right after generate_text_reports returned for file LastCall.idx
JustGenerated ==
  /\ calls # <<>>
  /\ LastCall.fn = "generate_text_reports"
  /\ ~LastCall.raised

\* the state in which load_workbook has just raised for file LastCall.idx
LoadRaised ==
  /\ pc = "aborted"
  /\ calls # <<>>
  /\ LastCall.fn = "generate_text_reports"
  /\ LastCall.raised

\* the lines of the s-th "Sheet: ..." section of a report
SectionLines(content, s) ==
  LET IsHeader(l) == l[1] = "Sheet: "
      heads == { k \in 1..Len(content) : IsHeader(content[k]) }
      nth == CHOOSE k \in heads : Cardinality({ h \in heads : h < k }) = s - 1
      later == { h \in heads : h > nth }
      stop == IF later = {} THEN Len(content) + 1
              ELSE CHOOSE h \in later : \A g \in later : h <= g
  IN  { content[k] : k \in (nth + 1)..(stop - 1) }

\* the lines a report holds for a coordinate in its s-th section
LinesFor(content, s, coordinate) ==
  { l \in SectionLines(content, s) : l[1] = "Cell " /\ l[2] = coordinate }

\* the report of a category written for the file processed last
LastReport(category) == rep.files[report_name(PrefixOf(LastCall.idx), category)]

LastWb == tree[LastCall.idx].wb

StartsWith(name, pre) ==
  Len(name) >= Len(pre) /\ SubSeq(name, 1, Len(pre)) = pre

\* the seven report names of file k and the text the run computes for one
ReportNames(k) == { report_name(PrefixOf(k), Categories[c]) : c \in 1..Len(Categories) }

ReportText(k, name) ==
  LET r == reports(tree[k].wb, PrefixOf(k))
  IN  r[CHOOSE c \in 1..Len(r) : r[c][1] = name][2]

(* ------------------------------ claims -------------------------------- *)

\* C1: every cell whose value is a boolean is listed in the
\* formulas_and_values report with Type='Boolean', never Type='Number'.
C1_BooleanIsBoolean ==
  JustGenerated =>
    \A s \in 1..Len(LastWb.sheets) : \A k \in 1..Len(LastWb.sheets[s].cells) :
      LET c == LastWb.sheets[s].cells[k]
          ls == LinesFor(LastReport(Cat_formulas_and_values), s, c.coordinate)
      IN  (c.value.t = "bool" /\ LastWb.eval_sheets[s].cells[k].value.t = "bool")
            => (ls # {} /\ \A l \in ls : l[6] = "Boolean")

\* C2 as stated: the formulas_and_values report lists a cell when its value
\* in the data_only=True view is not None and shows that value.
C2_ValueIsEvaluated ==
  JustGenerated =>
    \A s \in 1..Len(LastWb.sheets) : \A k \in 1..Len(LastWb.sheets[s].cells) :
      LET e == LastWb.eval_sheets[s].cells[k]
          ls == LinesFor(LastReport(Cat_formulas_and_values), s, e.coordinate)
      IN  /\ (ls # {}) <=> (e.value.t # "NoneType")
          /\ \A l \in ls : l[4] = str(e.value)

\* C2 amended: the formulas_and_values report lists a cell when its value in
\* the data_only=False view is not None and shows that value, which for a
\* formula cell is the formula text; the data_only=True view is never read.
C2_ValueIsFormulaView ==
  JustGenerated =>
    \A s \in 1..Len(LastWb.sheets) : \A k \in 1..Len(LastWb.sheets[s].cells) :
      LET c == LastWb.sheets[s].cells[k]
          ls == LinesFor(LastReport(Cat_formulas_and_values), s, c.coordinate)
      IN  /\ (ls # {}) <=> (c.value.t # "NoneType")
          /\ \A l \in ls : l[4] = str(c.value)

\* a formula cell with a cached result of 43 has been reported
C2_Witness ==
  /\ JustGenerated
  /\ \E s \in 1..Len(LastWb.sheets) : \E k \in 1..Len(LastWb.sheets[s].cells) :
       /\ LastWb.sheets[s].cells[k].value = StrV("=A1+1")
       /\ LastWb.eval_sheets[s].cells[k].value = IntV(43)
       /\ LinesFor(LastReport(Cat_formulas_and_values), s,
                   LastWb.sheets[s].cells[k].coordinate) # {}

\* C3: a second run on the directory the first run left ends with the same
\* files with the same contents in src.vba/ and excel_reports/.
C3_Idempotent ==
  (run = 2 /\ pc = "done") => (vba = snap.vba /\ rep = snap.rep)

\* a second run has completed and both directories hold files
C3_Witness ==
  /\ run = 2
  /\ pc = "done"
  /\ DOMAIN rep.files # {}
  /\ DOMAIN vba.files # {}

\* C4 as stated: when load_workbook raises for a file, no output file whose
\* name starts with that file's prefix has been written by the run.
C4_NoOutputForPrefix ==
  LoadRaised =>
    LET pre == PrefixOf(LastCall.idx) \o <<"_">>
    IN  /\ \A n \in DOMAIN vba.files : ~StartsWith(n, pre)
        /\ \A n \in DOMAIN rep.files : ~StartsWith(n, pre)

\* C4 amended: the call in which load_workbook raises writes no file: the
\* files of excel_reports/ and the whole of src.vba/ are as before the call.
C4_RaisingCallWritesNothing ==
  [][(pc = "reports" /\ pc' = "aborted") =>
       (rep'.files = rep.files /\ vba' = vba)]_vars

\* load_workbook raised for a file whose macros are already in src.vba/
C4_Witness ==
  /\ LoadRaised
  /\ \E n \in DOMAIN vba.files : StartsWith(n, PrefixOf(LastCall.idx) \o <<"_">>)

\* C5: the loop calls parse_vba then generate_text_reports for the matching
\* files in walk order; a call that raises is the last call of the run, no
\* file after it is processed or has output, and a run without a raise
\* processes every matching file exactly once.
C5_NoIsolation ==
  /\ \A j \in 1..Len(calls) :
       /\ j < Len(calls) => ~calls[j].raised
       /\ calls[j].fn = "parse_vba" =>
            (j = 1 \/ (calls[j-1].fn = "generate_text_reports" /\ calls[j-1].idx < calls[j].idx))
       /\ calls[j].fn = "generate_text_reports" =>
            (j > 1 /\ calls[j-1].fn = "parse_vba" /\ calls[j-1].idx = calls[j].idx)
  /\ pc = "aborted" =>
       /\ calls # <<>> /\ LastCall.raised
       /\ \A k \in 1..Len(tree) : k > LastCall.idx => ~Processed(k)
  /\ pc = "done" =>
       \A k \in 1..Len(tree) :
         LET n(fn) == Cardinality({ j \in 1..Len(calls) : calls[j].idx = k /\ calls[j].fn = fn })
         IN  IF HasExcelSuffix(tree[k].file)
             THEN n("parse_vba") = 1 /\ n("generate_text_reports") = 1
             ELSE n("parse_vba") = 0 /\ n("generate_text_reports") = 0
  /\ pc # "start" =>
       /\ \A name \in DOMAIN rep.files :
            \E j \in 1..Len(calls) :
              calls[j].fn = "generate_text_reports" /\ name \in ReportNames(calls[j].idx)
       /\ \A name \in DOMAIN vba.files :
            \E j \in 1..Len(calls) :
              calls[j].fn = "parse_vba" /\ StartsWith(name, PrefixOf(calls[j].idx) \o <<"_">>)

\* a call raised while a matching file was still ahead in the walk
C5_Witness ==
  /\ pc = "aborted"
  /\ \E k \in 1..Len(tree) : k > LastCall.idx /\ HasExcelSuffix(tree[k].file)

\* C6: when no file of the tree matches the filter, neither src.vba/ nor
\* excel_reports/ exists once the two removals are done, up to the end.
C6_NoExcelNoDirs ==
  (pc # "start" /\ \A k \in 1..Len(tree) : ~HasExcelSuffix(tree[k].file))
    => (~vba.exists /\ ~rep.exists)

\* a run over a tree of non-Excel files has ended
C6_Witness ==
  /\ pc = "done"
  /\ run = 1
  /\ tree # <<>>
  /\ \A k \in 1..Len(tree) : ~HasExcelSuffix(tree[k].file)
  /\ ~vba.exists /\ ~rep.exists

\* the text of a module after the lines starting with Attribute are dropped
FilteredText(text) ==
  LET ls == splitlines(text)
      IsAttr(l) == l # <<>> /\ (l[1] = AttrName \/ l[1] = AttrOther)
  IN  join(SelectSeq(ls, LAMBDA l : ~IsAttr(l)))

\* whether a line is left after the lines starting with Attribute are dropped
LinesRemain(text) ==
  \E k \in 1..Len(splitlines(text)) :
     LET l == splitlines(text)[k]
     IN  l = <<>> \/ (l[1] # AttrName /\ l[1] # AttrOther)

\* C7 as stated: parse_vba writes a module's file only when its text is
\* non-empty after the Attribute lines are dropped, so src.vba/ never holds
\* an empty file.
C7_NoEmptyFile ==
  (pc = "reports" /\ Len(calls) = 1) =>
    /\ \A m \in 1..Len(tree[i].wb.modules) :
         (PrefixOf(i) \o <<"_">> \o tree[i].wb.modules[m].filename \in DOMAIN vba.files)
           <=> (FilteredText(tree[i].wb.modules[m].content) # <<>>)
    /\ \A n \in DOMAIN vba.files : vba.files[n] # <<>>

\* C7 amended: a parse_vba call adds to src.vba/ exactly the files of the
\* modules of which a line is left after the Attribute lines are dropped,
\* and creates the directory only when it writes such a file.
C7_FileIffLineRemains ==
  [][(pc = "scan" /\ pc' = "reports") =>
       LET wb == tree[i].wb
           W == { PrefixOf(i) \o <<"_">> \o wb.modules[m].filename :
                    m \in { m \in 1..Len(wb.modules) : LinesRemain(wb.modules[m].content) } }
       IN  /\ DOMAIN vba'.files = DOMAIN vba.files \cup W
           /\ vba'.exists = (vba.exists \/ W # {})]_vars

\* parse_vba returned for a workbook whose modules hold Attribute lines only
\* and src.vba/ was not created
C7_Witness ==
  /\ pc = "reports"
  /\ tree[i].wb.modules # <<>>
  /\ \A m \in 1..Len(tree[i].wb.modules) :
       /\ tree[i].wb.modules[m].content # <<>>
       /\ ~LinesRemain(tree[i].wb.modules[m].content)
  /\ ~vba.exists

\* C8: a file the loop has passed was processed if and only if its name ends
\* with one of the seven extensions, case-sensitively and without a dot
\* boundary: fooxls and foo.not_xlsx are processed, DATA.XLSX is not.
C8_SuffixFilter ==
  \A k \in 1..Len(tree) :
    (k < i \/ (k = i /\ pc \in {"reports", "aborted"})) =>
      /\ Processed(k) <=> HasExcelSuffix(tree[k].file)
      /\ tree[k].file \in {F_fooxls, F_foo_not_xlsx} => Processed(k)
      /\ tree[k].file = F_DATA_XLSX => ~Processed(k)

\* DATA.XLSX was passed over and fooxls was handed to the two steps
C8_Witness ==
  /\ pc = "aborted"
  /\ tree[i].file = F_fooxls
  /\ Processed(i)
  /\ \E k \in 1..(i - 1) : tree[k].file = F_DATA_XLSX /\ ~Processed(k)

\* the last processed file among those processed with the prefix of file k
LaterOf(k) ==
  CHOOSE m \in 1..Len(tree) :
    /\ Processed(m) /\ PrefixOf(m) = PrefixOf(k)
    /\ \A q \in 1..Len(tree) : (Processed(q) /\ PrefixOf(q) = PrefixOf(k)) => q <= m

SharesPrefix(k) ==
  \E q \in 1..Len(tree) : q # k /\ Processed(q) /\ PrefixOf(q) = PrefixOf(k)

ExpectedNames == UNION { ReportNames(k) : k \in { q \in 1..Len(tree) : Processed(q) } }

Falsy == { NoneV, StrV(""), IntV(0), FloatV(0), BoolV(FALSE), DeltaV(0) }

\* C10: in a sheet the formatting report lists a cell exactly when its
\* value is truthy and the formulas_and_values report exactly when it is
\* not None; a cell of the first is a cell of the second, and 0, FALSE and
\* the empty string are only in the second.
C10_TruthyVersusNotNone ==
  JustGenerated =>
    \A s \in 1..Len(LastWb.sheets) : \A k \in 1..Len(LastWb.sheets[s].cells) :
      LET c == LastWb.sheets[s].cells[k]
          inFormat == LinesFor(LastReport(Cat_formatting), s, c.coordinate) # {}
          inValues == LinesFor(LastReport(Cat_formulas_and_values), s, c.coordinate) # {}
      IN  /\ inFormat <=> (c.value \notin Falsy)
          /\ inValues <=> (c.value # NoneV)
          /\ inFormat => inValues
          /\ c.value \in {IntV(0), BoolV(FALSE), StrV("")} => (inValues /\ ~inFormat)

\* a sheet with a cell holding 0 and a cell holding a truthy value was reported
C10_Witness ==
  /\ JustGenerated
  /\ \E s \in 1..Len(LastWb.sheets) : \E k, m \in 1..Len(LastWb.sheets[s].cells) :
       /\ LastWb.sheets[s].cells[k].value = IntV(0)
       /\ LastWb.sheets[s].cells[m].value = IntV(42)
       /\ LinesFor(LastReport(Cat_formatting), s, LastWb.sheets[s].cells[k].coordinate) = {}
       /\ LinesFor(LastReport(Cat_formatting), s, LastWb.sheets[s].cells[m].coordinate) # {}

====
